---- MODULE Spec2Model ----
(***************************************************************************)
(* FarmAssist backend: the weather service (src/src/services/weather.ts)   *)
(* and the agricultural advisory service (src/unnamed/part_001).           *)
(*                                                                         *)
(* Temperatures, humidities, wind speeds and precipitation amounts are     *)
(* integers (degrees C, percent, km/h, mm).  A calendar date is the day    *)
(* number of the sample's epoch-seconds instant; ISO date strings of the   *)
(* years 0000-9999 compare exactly as their day numbers do.                *)
(***************************************************************************)
EXTENDS Integers, Sequences, FiniteSets, TLC

VARIABLES
    cur,      \* classifier input: the current sample (CurrentWeather.current)
    fc,       \* classifier input: the forecast samples (WeatherForecast.forecast)
    alerts,   \* synthesizer input: the four classified alerts
    ret,      \* the last classifier / synthesizer call and what it returned
    op,       \* the service entry point of the request in progress
    pc,       \* position of the request: "idle", "waiting", "joined", "done"
    pending,  \* provider fetches issued and not yet completed
    resp,     \* envelope of each completed sub-call of the request
    answers,  \* what the provider answered to each completed sub-call
    calls,    \* number of provider calls issued so far, per endpoint
    result    \* what the entry point returned to its caller

vars == <<cur, fc, alerts, ret, op, pc, pending, resp, answers, calls, result>>

classifierVars == <<cur, fc, alerts, ret>>
requestVars == <<op, pc, pending, resp, answers, calls, result>>

(***************************************************************************)
(* Bounds of the model.                                                    *)
(***************************************************************************)
MaxFrostLen == 9      \* longest forecast of the frost / spraying probes
MaxRainLen == 17      \* longest forecast of the irrigation probes
MaxList == 2          \* longest sample list a provider answers a composed request with
MaxDailyList == 5     \* longest sample list a provider answers a daily aggregation with
MaxDays == 4          \* longest sequence of daily aggregates of the index-engine probes

(***************************************************************************)
(* JavaScript helpers.                                                     *)
(***************************************************************************)
Null == "null"

\* Math.min() of no argument, the value Math.min(...[]) evaluates to.
Infinity == 1000

Min2(a, b) == IF a <= b THEN a ELSE b
Max2(a, b) == IF a >= b THEN a ELSE b

\* Array.prototype.slice(0, n)
slice(s, n) == SubSeq(s, 1, Min2(n, Len(s)))

\* Math.min(...xs) / Math.max(...xs)
RECURSIVE MathMin(_)
MathMin(xs) == IF xs = <<>> THEN Infinity ELSE Min2(Head(xs), MathMin(Tail(xs)))

RECURSIVE MathMax(_)
MathMax(xs) == IF xs = <<>> THEN -Infinity ELSE Max2(Head(xs), MathMax(Tail(xs)))

\* xs.reduce((sum, x) => sum + x, 0)
RECURSIVE Sum(_)
Sum(xs) == IF xs = <<>> THEN 0 ELSE Head(xs) + Sum(Tail(xs))

\* Array.prototype.indexOf: 0-based position of the first element equal to x, or -1
indexOf(s, x) ==
    IF \E i \in 1..Len(s) : s[i] = x
    THEN (CHOOSE i \in 1..Len(s) : s[i] = x /\ \A j \in 1..(i - 1) : s[j] # x) - 1
    ELSE -1

temperatures(items) == [i \in 1..Len(items) |-> items[i].temperature]

(***************************************************************************)
(* AgriculturalService: the four classifiers.                              *)
(***************************************************************************)
FrostRisks == {"none", "low", "moderate", "high", "critical"}
HeatRisks == {"none", "low", "moderate", "high", "extreme"}
Recommendations == {"immediate", "within_24h", "within_48h", "skip", "monitor"}
Priorities == {"low", "medium", "high", "urgent"}

\* The message / timeframe strings of a frost tier.
FrostText(risk) ==
    CASE risk = "critical" -> [message |-> "Severe frost expected - immediate action required",
                               timeframe |-> "Within next 6-12 hours"]
      [] risk = "high"     -> [message |-> "Hard frost likely - protect vulnerable crops",
                               timeframe |-> "Within next 12-24 hours"]
      [] risk = "moderate" -> [message |-> "Light frost possible - monitor closely",
                               timeframe |-> "Within next 24-48 hours"]
      [] risk = "low"      -> [message |-> "Cool temperatures ahead - minimal frost risk",
                               timeframe |-> "Next 2-3 days"]
      [] OTHER             -> [message |-> "No frost risk detected",
                               timeframe |-> "Next 5 days"]

\* Mutant of analyzeFrostRisk: the current temperature joins the minimum.
analyzeFrostRisk_withCurrent(currentTemp, forecastData) ==
    LET lowestTemp == Min2(currentTemp, MathMin(temperatures(slice(forecastData, 8))))
        risk == IF lowestTemp <= -2 THEN "critical"
                ELSE IF lowestTemp <= 0 THEN "high"
                ELSE IF lowestTemp <= 2 THEN "moderate"
                ELSE IF lowestTemp <= 5 THEN "low"
                ELSE "none"
    IN  [risk |-> risk, message |-> FrostText(risk).message,
         timeframe |-> FrostText(risk).timeframe, temperature |-> lowestTemp]

analyzeFrostRisk(currentTemp, forecastData) ==
    LET minTemps == temperatures(slice(forecastData, 8))
        lowestTemp == MathMin(minTemps)
        risk == IF lowestTemp <= -2 THEN "critical"
                ELSE IF lowestTemp <= 0 THEN "high"
                ELSE IF lowestTemp <= 2 THEN "moderate"
                ELSE IF lowestTemp <= 5 THEN "low"
                ELSE "none"
    IN  [risk |-> risk, message |-> FrostText(risk).message,
         timeframe |-> FrostText(risk).timeframe, temperature |-> lowestTemp]

\* item.precipitation || 0: a number is kept (0 and NaN give 0); the normalized
\* samples always carry a number (weather.ts line 259).
precipitationOrZero(item) == item.precipitation

\* One branch of the irrigation cascade, given the rain total of the window.
IrrigationBranch(currentWeather, totalRain, tier) ==
    LET currentTemp == currentWeather.temperature
        currentHumidity == currentWeather.humidity
    IN  CASE tier = "skip" ->
               [recommendation |-> "skip",
                message |-> "Skip irrigation - adequate rainfall expected",
                reason |-> <<"mm rain forecast in next 48 hours", totalRain>>,
                nextCheck |-> "Check again after rainfall", waterAmount |-> ""]
          [] tier = "immediate" ->
               [recommendation |-> "immediate",
                message |-> "Immediate irrigation required - extreme heat stress conditions",
                reason |-> <<"Very high temperature", currentTemp, currentHumidity>>,
                nextCheck |-> "Monitor every 6 hours",
                waterAmount |-> "Deep watering recommended - 25-30mm equivalent"]
          [] tier = "within_24h" ->
               [recommendation |-> "within_24h",
                message |-> "Irrigation needed within 24 hours - high stress conditions",
                reason |-> <<"High temperature", currentTemp, currentHumidity>>,
                nextCheck |-> "Check again in 12 hours",
                waterAmount |-> "Regular watering - 15-20mm equivalent"]
          [] tier = "within_48h" ->
               [recommendation |-> "within_48h",
                message |-> "Plan irrigation within 48 hours - moderate stress detected",
                reason |-> <<"Moderate temperature", currentTemp, currentHumidity>>,
                nextCheck |-> "Check again in 24 hours",
                waterAmount |-> "Light watering - 10-15mm equivalent"]
          [] OTHER ->
               [recommendation |-> "monitor",
                message |-> "Continue monitoring - current conditions adequate",
                reason |-> <<"Acceptable temperature", currentTemp, currentHumidity>>,
                nextCheck |-> "Check again in 24 hours", waterAmount |-> ""]

\* Mutant of generateIrrigationAdvice: the rain test comes after the stress tiers.
generateIrrigationAdvice_rainLast(currentWeather, forecastData) ==
    LET currentTemp == currentWeather.temperature
        currentHumidity == currentWeather.humidity
        rainForecast == slice(forecastData, 16)
        totalRain == Sum([i \in 1..Len(rainForecast) |-> precipitationOrZero(rainForecast[i])])
        tier == IF currentTemp > 35 /\ currentHumidity < 35 THEN "immediate"
                ELSE IF currentTemp > 30 /\ currentHumidity < 40 THEN "within_24h"
                ELSE IF currentTemp > 25 /\ currentHumidity < 50 THEN "within_48h"
                ELSE IF totalRain > 5 THEN "skip"
                ELSE "monitor"
    IN  IrrigationBranch(currentWeather, totalRain, tier)

\* Mutant of generateIrrigationAdvice: the stress tiers are tested mildest first.
generateIrrigationAdvice_mildestFirst(currentWeather, forecastData) ==
    LET currentTemp == currentWeather.temperature
        currentHumidity == currentWeather.humidity
        rainForecast == slice(forecastData, 16)
        totalRain == Sum([i \in 1..Len(rainForecast) |-> precipitationOrZero(rainForecast[i])])
        tier == IF totalRain > 5 THEN "skip"
                ELSE IF currentTemp > 25 /\ currentHumidity < 50 THEN "within_48h"
                ELSE IF currentTemp > 30 /\ currentHumidity < 40 THEN "within_24h"
                ELSE IF currentTemp > 35 /\ currentHumidity < 35 THEN "immediate"
                ELSE "monitor"
    IN  IrrigationBranch(currentWeather, totalRain, tier)

\* Mutant of generateIrrigationAdvice: high water stress starts at 30 degrees, not above.
generateIrrigationAdvice_highFrom30(currentWeather, forecastData) ==
    LET currentTemp == currentWeather.temperature
        currentHumidity == currentWeather.humidity
        rainForecast == slice(forecastData, 16)
        totalRain == Sum([i \in 1..Len(rainForecast) |-> precipitationOrZero(rainForecast[i])])
        tier == IF totalRain > 5 THEN "skip"
                ELSE IF currentTemp > 35 /\ currentHumidity < 35 THEN "immediate"
                ELSE IF currentTemp >= 30 /\ currentHumidity < 40 THEN "within_24h"
                ELSE IF currentTemp > 25 /\ currentHumidity < 50 THEN "within_48h"
                ELSE "monitor"
    IN  IrrigationBranch(currentWeather, totalRain, tier)

generateIrrigationAdvice(currentWeather, forecastData) ==
    LET currentTemp == currentWeather.temperature
        currentHumidity == currentWeather.humidity
        rainForecast == slice(forecastData, 16)
        totalRain == Sum([i \in 1..Len(rainForecast) |-> precipitationOrZero(rainForecast[i])])
        significantRain == totalRain > 5
        waterStress == currentTemp > 25 /\ currentHumidity < 50
        highWaterStress == currentTemp > 30 /\ currentHumidity < 40
        extremeWaterStress == currentTemp > 35 /\ currentHumidity < 35
        tier == IF significantRain THEN "skip"
                ELSE IF extremeWaterStress THEN "immediate"
                ELSE IF highWaterStress THEN "within_24h"
                ELSE IF waterStress THEN "within_48h"
                ELSE "monitor"
    IN  IrrigationBranch(currentWeather, totalRain, tier)

\* The predicate of the goodWindows filter.
IsGoodWindow(item) ==
    /\ item.windSpeed < 15
    /\ precipitationOrZero(item) = 0
    /\ item.temperature > 10
    /\ item.temperature < 30

\* The branches of analyzeSprayingConditions, given the window and its good samples.
\* hours is what new Date().getHours() returns during the call.
SprayingBranch(currentWeather, next24h, goodWindows, hours) ==
    LET currentWind == currentWeather.windSpeed
        currentTemp == currentWeather.temperature
        morningWindows ==
            {index \in 0..(Len(goodWindows) - 1) :
                LET hour == (hours + (index * 3)) % 24 IN hour >= 6 /\ hour <= 10}
    IN  IF currentWind > 20 THEN
            [suitable |-> FALSE,
             message |-> "Spraying not recommended - wind too strong",
             bestTime |-> "",
             nextOpportunity |->
                 IF goodWindows # <<>>
                 THEN <<"Next opportunity in hours", indexOf(next24h, goodWindows[1]) * 3>>
                 ELSE <<"Check forecast tomorrow">>,
             reason |-> <<"Current wind speed", currentWind>>]
        ELSE IF currentTemp > 30 THEN
            [suitable |-> FALSE,
             message |-> "Spraying not recommended - temperature too high",
             bestTime |-> "",
             nextOpportunity |-> <<"Wait for cooler conditions (early morning/evening)">>,
             reason |-> <<"Current temperature", currentTemp>>]
        ELSE IF Len(goodWindows) > 0 THEN
            [suitable |-> TRUE,
             message |-> "Good spraying conditions available",
             bestTime |-> IF morningWindows # {}
                          THEN "Early morning (6-10 AM) recommended for optimal results"
                          ELSE "Current conditions suitable - spray when convenient",
             nextOpportunity |-> <<>>,
             reason |-> <<"Low wind, suitable temperature", currentWind, currentTemp>>]
        ELSE
            [suitable |-> FALSE,
             message |-> "Poor spraying conditions - wait for better weather",
             bestTime |-> "",
             nextOpportunity |-> <<"Check forecast again in 12 hours">>,
             reason |-> <<"High wind or rain forecast in next 24 hours">>]

\* Mutant of analyzeSprayingConditions: the good windows are looked for in the whole
\* forecast, not in its first 8 samples.
analyzeSprayingConditions_noSlice(currentWeather, forecastData, hours) ==
    SprayingBranch(currentWeather, forecastData, SelectSeq(forecastData, IsGoodWindow), hours)

\* Mutant of analyzeSprayingConditions: the next opportunity is given as the hour of
\* the day at which the good window starts, not as the hours until it.
analyzeSprayingConditions_clockOpportunity(currentWeather, forecastData, hours) ==
    LET next24h == slice(forecastData, 8)
        goodWindows == SelectSeq(next24h, IsGoodWindow)
        alert == SprayingBranch(currentWeather, next24h, goodWindows, hours)
    IN  IF currentWeather.windSpeed > 20 /\ goodWindows # <<>>
        THEN [alert EXCEPT !.nextOpportunity =
                 <<"Next opportunity in hours",
                   (hours + indexOf(next24h, goodWindows[1]) * 3) % 24>>]
        ELSE alert

analyzeSprayingConditions(currentWeather, forecastData, hours) ==
    LET next24h == slice(forecastData, 8)
        goodWindows == SelectSeq(next24h, IsGoodWindow)
    IN  SprayingBranch(currentWeather, next24h, goodWindows, hours)

\* The message string of a heat-stress tier.
HeatText(risk) ==
    CASE risk = "extreme"  -> "Extreme heat stress - immediate action required"
      [] risk = "high"     -> "High heat stress - crops need protection"
      [] risk = "moderate" -> "Moderate heat stress - monitor crops closely"
      [] risk = "low"      -> "Mild heat stress possible - maintain normal care"
      [] OTHER             -> "No heat stress detected"

\* The record assessHeatStress returns for a tier.
HeatAlert(risk, currentTemp, forecastData) ==
    LET isHot(item) == item.temperature > 30
        highTempPeriods == Len(SelectSeq(forecastData, isHot))
    IN  [risk |-> risk, message |-> HeatText(risk),
         duration |-> highTempPeriods * 3, temperature |-> currentTemp]

\* Mutant of assessHeatStress: the high tier is tested before the extreme tier.
assessHeatStress_highFirst(currentWeather, forecastData) ==
    LET currentTemp == currentWeather.temperature
        currentHumidity == currentWeather.humidity
        risk == IF currentTemp > 35 \/ (currentTemp > 30 /\ currentHumidity > 80) THEN "high"
                ELSE IF currentTemp > 40 \/ (currentTemp > 35 /\ currentHumidity > 70) THEN "extreme"
                ELSE IF currentTemp > 30 \/ (currentTemp > 25 /\ currentHumidity > 85) THEN "moderate"
                ELSE IF currentTemp > 25 THEN "low"
                ELSE "none"
    IN  HeatAlert(risk, currentTemp, forecastData)

assessHeatStress(currentWeather, forecastData) ==
    LET currentTemp == currentWeather.temperature
        currentHumidity == currentWeather.humidity
        risk == IF currentTemp > 40 \/ (currentTemp > 35 /\ currentHumidity > 70) THEN "extreme"
                ELSE IF currentTemp > 35 \/ (currentTemp > 30 /\ currentHumidity > 80) THEN "high"
                ELSE IF currentTemp > 30 \/ (currentTemp > 25 /\ currentHumidity > 85) THEN "moderate"
                ELSE IF currentTemp > 25 THEN "low"
                ELSE "none"
    IN  HeatAlert(risk, currentTemp, forecastData)

(***************************************************************************)
(* AgriculturalService: the priority synthesizer.                          *)
(***************************************************************************)
AdviceUrgent == "Urgent action required - check all alerts immediately"
AdviceHigh == "High priority - address within 24 hours"
AdviceMedium == "Medium priority - plan accordingly"
AdviceSpraying == "Good conditions for pesticide/herbicide application"
AdviceRain == "Rain expected - save on irrigation costs"
AdviceOptimal == "Optimal growing conditions - ideal for field work"
AdviceUpdates == "Check updates every 12-24 hours for changing conditions"

\* The advice list, given the priority the cascade chose.
\* Mutant of OverallAdvice: the optimal-conditions advice looks at the frost risk only.
OverallAdvice_optimalByFrost(priority, frost, irrigation, spraying, heatStress) ==
    [priority |-> priority,
     generalAdvice |->
        (CASE priority = "urgent" -> <<AdviceUrgent>>
           [] priority = "high"   -> <<AdviceHigh>>
           [] priority = "medium" -> <<AdviceMedium>>
           [] OTHER               -> <<>>)
        \o (IF spraying.suitable THEN <<AdviceSpraying>> ELSE <<>>)
        \o (IF irrigation.recommendation = "skip" THEN <<AdviceRain>> ELSE <<>>)
        \o (IF frost.risk = "none" THEN <<AdviceOptimal>> ELSE <<>>)
        \o <<AdviceUpdates>>]

OverallAdvice(priority, frost, irrigation, spraying, heatStress) ==
    [priority |-> priority,
     generalAdvice |->
        (CASE priority = "urgent" -> <<AdviceUrgent>>
           [] priority = "high"   -> <<AdviceHigh>>
           [] priority = "medium" -> <<AdviceMedium>>
           [] OTHER               -> <<>>)
        \o (IF spraying.suitable THEN <<AdviceSpraying>> ELSE <<>>)
        \o (IF irrigation.recommendation = "skip" THEN <<AdviceRain>> ELSE <<>>)
        \o (IF frost.risk = "none" /\ heatStress.risk = "none" THEN <<AdviceOptimal>> ELSE <<>>)
        \o <<AdviceUpdates>>]

\* Mutant of generateOverallAdvice: the high tier forgets the irrigation advice.
generateOverallAdvice_noIrrigation24h(frost, irrigation, spraying, heatStress) ==
    LET priority ==
            IF frost.risk = "critical" \/ heatStress.risk = "extreme"
               \/ irrigation.recommendation = "immediate" THEN "urgent"
            ELSE IF frost.risk = "high" \/ heatStress.risk = "high" THEN "high"
            ELSE IF frost.risk = "moderate" \/ heatStress.risk = "moderate"
               \/ irrigation.recommendation = "within_48h" THEN "medium"
            ELSE "low"
    IN  OverallAdvice(priority, frost, irrigation, spraying, heatStress)

generateOverallAdvice(frost, irrigation, spraying, heatStress) ==
    LET priority ==
            IF frost.risk = "critical" \/ heatStress.risk = "extreme"
               \/ irrigation.recommendation = "immediate" THEN "urgent"
            ELSE IF frost.risk = "high" \/ heatStress.risk = "high"
               \/ irrigation.recommendation = "within_24h" THEN "high"
            ELSE IF frost.risk = "moderate" \/ heatStress.risk = "moderate"
               \/ irrigation.recommendation = "within_48h" THEN "medium"
            ELSE "low"
    IN  OverallAdvice(priority, frost, irrigation, spraying, heatStress)

(***************************************************************************)
(* WeatherService: provider answers and their normalization.               *)
(*                                                                         *)
(* A provider call ends in one of three ways: axios resolves with a        *)
(* payload ("ok"), axios rejects ("reject"), or it resolves with a payload *)
(* whose shape makes the mapping throw a TypeError ("malformed").          *)
(* A function's completion is Return(value) or Throw(message).             *)
(***************************************************************************)
Return(v) == [thrown |-> FALSE, value |-> v]
Throw(message) == [thrown |-> TRUE, value |-> message]

\* new Date().toISOString()
Timestamp == "new Date().toISOString()"

Location == [name |-> "Farm", lat |-> 12, lon |-> 77]

\* The catch block of the WeatherService methods and of getCropAdvisory.
CatchWithTimestamp(completion) ==
    IF completion.thrown
    THEN Return([success |-> FALSE, error |-> completion.value, timestamp |-> Timestamp])
    ELSE completion

\* The catch block of getFrostAlert and getIrrigationAdvice.
CatchPlain(completion) ==
    IF completion.thrown
    THEN Return([success |-> FALSE, error |-> completion.value])
    ELSE completion

\* new Date(item.dt * 1000).toISOString().split('T')[0], as a day number
isoDate(dt) == dt \div (24 * 60 * 60)

\* item.rain ? item.rain["3h"] || 0 : 0   (rain is <<>> when absent, <<mm>> otherwise)
rainOrZero(rain) == IF rain = <<>> THEN 0 ELSE rain[1]

\* target: source[key] for a number the provider may leave out of main or wind: the
\* read gives undefined and the field is absent from the result.
copyField(target, source, key) ==
    IF key \in DOMAIN source THEN target :> source[key] ELSE [k \in {} |-> Null]

\* temperature: x.main.temp, humidity: x.main.humidity, pressure: x.main.pressure,
\* windSpeed: x.wind.speed, copied as they are.
copyNumbers(source) ==
    copyField("temperature", source, "temp") @@ copyField("humidity", source, "humidity")
    @@ copyField("pressure", source, "pressure") @@ copyField("windSpeed", source, "wind")

\* One element of data.list.map(...) in getHourlyForecast / getHistoricalWeather.
normalizeItem(item) ==
    [date |-> isoDate(item.dt), precipitation |-> rainOrZero(item.rain),
     weather |-> item.weather] @@ copyNumbers(item)

normalizeList(list) == [i \in 1..Len(list) |-> normalizeItem(list[i])]

getCurrentWeatherBody(outcome) ==
    IF outcome.kind # "ok" THEN Throw(outcome.message)
    ELSE Return([success |-> TRUE,
                 data |-> [location |-> Location,
                           current |-> [weather |-> outcome.data.weather]
                                       @@ copyNumbers(outcome.data)],
                 timestamp |-> Timestamp])

getCurrentWeather(outcome) == CatchWithTimestamp(getCurrentWeatherBody(outcome))

getHourlyForecastBody(outcome) ==
    IF outcome.kind # "ok" THEN Throw(outcome.message)
    ELSE Return([success |-> TRUE,
                 data |-> [location |-> Location, forecast |-> normalizeList(outcome.data)],
                 timestamp |-> Timestamp])

getHourlyForecast(outcome) == CatchWithTimestamp(getHourlyForecastBody(outcome))

getHistoricalWeatherBody(outcome) ==
    IF outcome.kind # "ok" THEN Throw(outcome.message)
    ELSE Return([success |-> TRUE,
                 data |-> [location |-> Location, data |-> normalizeList(outcome.data)],
                 timestamp |-> Timestamp])

getHistoricalWeather(outcome) == CatchWithTimestamp(getHistoricalWeatherBody(outcome))

(***************************************************************************)
(* WeatherService: the daily aggregation.                                  *)
(***************************************************************************)
\* Mutant of dailyMapPush: a sample joins the last group only; a date seen earlier
\* opens a second group.
dailyMapPush_adjacentOnly(dailyMap, item) ==
    IF dailyMap # <<>> /\ dailyMap[Len(dailyMap)].date = item.date
    THEN [dailyMap EXCEPT ![Len(dailyMap)].items = Append(@, item)]
    ELSE Append(dailyMap, [date |-> item.date, items |-> <<item>>])

\* One step of the forEach that fills dailyMap.  The Map is the sequence of its
\* entries in insertion order.
dailyMapPush(dailyMap, item) ==
    IF \E k \in 1..Len(dailyMap) : dailyMap[k].date = item.date
    THEN LET k == CHOOSE k \in 1..Len(dailyMap) : dailyMap[k].date = item.date
         IN  [dailyMap EXCEPT ![k].items = Append(@, item)]
    ELSE Append(dailyMap, [date |-> item.date, items |-> <<item>>])

RECURSIVE dailyMapFill(_, _)
dailyMapFill(dailyMap, samples) ==
    IF samples = <<>> THEN dailyMap
    ELSE dailyMapFill(dailyMapPush(dailyMap, Head(samples)), Tail(samples))

\* Math.round(num / den): the nearest integer, halves rounded up
MathRound(num, den) == (2 * num + den) \div (2 * den)

\* Mutant of representative: the sample at floor((n - 1) / 2).
representative_lowerMiddle(items) == items[((Len(items) - 1) \div 2) + 1].weather

\* items[Math.floor(items.length / 2)].weather (main, description and icon together)
representative(items) == items[(Len(items) \div 2) + 1].weather

\* The aggregate of one Map entry.  average is the fraction sum / count;
\* windSpeed and precipitation, rounded to 2 decimals, are in hundredths.
aggregate(entry) ==
    LET items == entry.items
        n == Len(items)
        temps == temperatures(items)
    IN  [date |-> entry.date,
         temperature |-> [min |-> MathMin(temps), max |-> MathMax(temps),
                          average |-> [num |-> Sum(temps), den |-> n]],
         humidity |-> MathRound(Sum([i \in 1..n |-> items[i].humidity]), n),
         pressure |-> MathRound(Sum([i \in 1..n |-> items[i].pressure]), n),
         windSpeed |-> MathRound(100 * Sum([i \in 1..n |-> items[i].windSpeed]), n),
         precipitation |-> MathRound(100 * Sum([i \in 1..n |-> items[i].precipitation]), 1),
         weather |-> representative(items)]

\* Array.from(dailyMap.entries()).map(...)
aggregateAll(dailyMap) == [k \in 1..Len(dailyMap) |-> aggregate(dailyMap[k])]

\* Insertion of one aggregate into a list sorted by date (stable).
RECURSIVE insertByDate(_, _)
insertByDate(sorted, a) ==
    IF sorted = <<>> THEN <<a>>
    ELSE IF a.date < Head(sorted).date THEN <<a>> \o sorted
    ELSE <<Head(sorted)>> \o insertByDate(Tail(sorted), a)

\* .sort((a, b) => a.date.localeCompare(b.date))
RECURSIVE sortByDate(_)
sortByDate(days) ==
    IF days = <<>> THEN <<>>
    ELSE insertByDate(sortByDate(SubSeq(days, 1, Len(days) - 1)), days[Len(days)])

getDailyForecastBody(outcome) ==
    LET hourlyResponse == getHourlyForecast(outcome)
    IN  IF hourlyResponse.thrown THEN hourlyResponse
        ELSE IF ~hourlyResponse.value.success \/ "data" \notin DOMAIN hourlyResponse.value
        THEN Throw("Failed to fetch hourly forecast for daily aggregation")
        ELSE LET hourlyData == hourlyResponse.value.data
                 dailyMap == dailyMapFill(<<>>, hourlyData.forecast)
             IN  Return([success |-> TRUE,
                         data |-> [location |-> hourlyData.location,
                                   forecast |-> aggregateAll(dailyMap)],
                         timestamp |-> Timestamp])

getDailyForecast(outcome) == CatchWithTimestamp(getDailyForecastBody(outcome))

\* Mutant of getHistoricalDailyWeatherBody: an empty list of samples is treated as a
\* failed fetch.
getHistoricalDailyWeatherBody_rejectEmpty(outcome) ==
    LET historicalResponse == getHistoricalWeather(outcome)
    IN  IF historicalResponse.thrown THEN historicalResponse
        ELSE IF ~historicalResponse.value.success
                \/ "data" \notin DOMAIN historicalResponse.value
        THEN Throw("Failed to fetch historical weather for daily aggregation")
        ELSE IF historicalResponse.value.data.data = <<>>
        THEN Throw("Failed to fetch historical weather for daily aggregation")
        ELSE LET historicalData == historicalResponse.value.data
                 dailyMap == dailyMapFill(<<>>, historicalData.data)
             IN  Return([success |-> TRUE,
                         data |-> [location |-> historicalData.location,
                                   data |-> sortByDate(aggregateAll(dailyMap))],
                         timestamp |-> Timestamp])

getHistoricalDailyWeatherBody(outcome) ==
    LET historicalResponse == getHistoricalWeather(outcome)
    IN  IF historicalResponse.thrown THEN historicalResponse
        ELSE IF ~historicalResponse.value.success
                \/ "data" \notin DOMAIN historicalResponse.value
        THEN Throw("Failed to fetch historical weather for daily aggregation")
        ELSE LET historicalData == historicalResponse.value.data
                 dailyMap == dailyMapFill(<<>>, historicalData.data)
             IN  Return([success |-> TRUE,
                         data |-> [location |-> historicalData.location,
                                   data |-> sortByDate(aggregateAll(dailyMap))],
                         timestamp |-> Timestamp])

getHistoricalDailyWeather(outcome) == CatchWithTimestamp(getHistoricalDailyWeatherBody(outcome))

(***************************************************************************)
(* Inputs of the classifier calls.                                         *)
(***************************************************************************)
\* A normalized forecast sample (WeatherForecast.forecast[i]).
Sample(date, t, h, w, p, wx) ==
    [date |-> date, temperature |-> t, humidity |-> h, pressure |-> 1013,
     windSpeed |-> w, precipitation |-> p, weather |-> wx]

\* A normalized current sample (CurrentWeather.current).
Current(t, h, w) ==
    [temperature |-> t, humidity |-> h, pressure |-> 1013, windSpeed |-> w,
     weather |-> "Clear"]

\* Sequences of at most maxLen samples, all equal to base but for at most one.
PaddedSeqs(maxLen, base, specials) ==
    {[i \in 1..n |-> IF i = p THEN s ELSE base] :
        n \in 0..maxLen, p \in 0..maxLen, s \in specials}

Hours == 0..23

MildSample == Sample(0, 20, 50, 5, 0, "Clear")
MildCurrent == Current(20, 50, 5)

\* Forecasts probing the frost thresholds and the 8-sample window.
FrostForecasts ==
    UNION {PaddedSeqs(MaxFrostLen, Sample(0, b, 50, 5, 0, "Clear"),
                      {Sample(0, t, 50, 5, 0, "Clear") : t \in {-3, -2, -1, 0, 1, 2, 3, 5, 6}})
           : b \in {1, 6}}

\* Forecasts probing the rain total of the 16-sample window.
RainForecasts ==
    UNION {PaddedSeqs(MaxRainLen, Sample(0, 20, 50, 5, b, "Rain"),
                      {Sample(0, 20, 50, 5, p, "Rain") : p \in {5, 6}})
           : b \in {0, 1}}

DryForecasts == {f \in RainForecasts : Len(f) <= 2}

\* Current samples around the water-stress and heat-stress thresholds.
StressCurrents ==
    {Current(t, h, 5) : t \in {25, 26, 30, 31, 35, 36}, h \in {34, 35, 39, 40, 49, 50, 75}}

HeatCurrents ==
    {Current(t, h, 5) : t \in {25, 26, 30, 31, 35, 36, 38, 40, 41},
                        h \in {70, 71, 75, 80, 81, 85, 86}}

\* Forecasts probing the good-window predicate and the 8-sample window.
SprayForecasts ==
    UNION {PaddedSeqs(MaxFrostLen, base,
                      {Sample(0, 11, 50, 14, 0, "Clear"), Sample(0, 29, 50, 14, 0, "Clear"),
                       Sample(0, 20, 50, 15, 0, "Clear"), Sample(0, 20, 50, 14, 1, "Rain"),
                       Sample(0, 10, 50, 14, 0, "Clear"), Sample(0, 30, 50, 14, 0, "Clear")})
           : base \in {Sample(0, 20, 50, 15, 0, "Clouds"), Sample(0, 20, 50, 14, 0, "Clouds")}}

SprayCurrents == {Current(t, 50, w) : t \in {30, 31}, w \in {14, 20, 21}}

NoCall == [fn |-> "none", val |-> Null, hours |-> 0]
NoAlerts == [given |-> FALSE]

\* The request machinery at rest.
RequestIdle ==
    /\ op = "none"
    /\ pc = "idle"
    /\ pending = {}
    /\ resp = [s \in {} |-> Null]
    /\ answers = [s \in {} |-> Null]
    /\ calls = [weather |-> 0, forecast |-> 0, history |-> 0]
    /\ result = Null

InitClassifier ==
    /\ \/ cur \in {MildCurrent, Current(-5, 50, 5)} /\ fc \in FrostForecasts
       \/ cur \in StressCurrents /\ fc \in DryForecasts
       \/ cur \in {Current(36, 34, 5), Current(31, 39, 5), Current(25, 75, 5)}
          /\ fc \in RainForecasts
       \/ cur \in HeatCurrents /\ fc \in {<<>>, <<MildSample, Sample(0, 31, 50, 5, 0, "Clear")>>}
       \/ cur \in SprayCurrents /\ fc \in SprayForecasts
    /\ alerts = NoAlerts
    /\ ret = NoCall
    /\ RequestIdle

CallAnalyzeFrostRisk ==
    /\ ret.fn = "none"
    /\ ~alerts.given
    /\ ret' = [fn |-> "analyzeFrostRisk", val |-> analyzeFrostRisk(cur.temperature, fc),
               hours |-> 0]
    /\ UNCHANGED <<cur, fc, alerts, requestVars>>

CallGenerateIrrigationAdvice ==
    /\ ret.fn = "none"
    /\ ~alerts.given
    /\ ret' = [fn |-> "generateIrrigationAdvice", val |-> generateIrrigationAdvice(cur, fc),
               hours |-> 0]
    /\ UNCHANGED <<cur, fc, alerts, requestVars>>

CallAnalyzeSprayingConditions ==
    /\ ret.fn = "none"
    /\ ~alerts.given
    /\ \E hours \in Hours :
          ret' = [fn |-> "analyzeSprayingConditions",
                  val |-> analyzeSprayingConditions(cur, fc, hours), hours |-> hours]
    /\ UNCHANGED <<cur, fc, alerts, requestVars>>

CallAssessHeatStress ==
    /\ ret.fn = "none"
    /\ ~alerts.given
    /\ ret' = [fn |-> "assessHeatStress", val |-> assessHeatStress(cur, fc), hours |-> 0]
    /\ UNCHANGED <<cur, fc, alerts, requestVars>>

NextClassifier ==
    \/ CallAnalyzeFrostRisk
    \/ CallGenerateIrrigationAdvice
    \/ CallAnalyzeSprayingConditions
    \/ CallAssessHeatStress

SpecClassifier == InitClassifier /\ [][NextClassifier]_vars

(***************************************************************************)
(* The synthesizer on every combination of classified alerts.              *)
(***************************************************************************)
FrostAlerts ==
    {analyzeFrostRisk(20, <<Sample(0, t, 50, 5, 0, "Clear")>>) : t \in {-2, 0, 2, 5, 6}}

IrrigationAlerts ==
    {generateIrrigationAdvice(c, <<>>) :
        c \in {Current(36, 34, 5), Current(31, 39, 5), Current(26, 49, 5), Current(20, 50, 5)}}
    \cup {generateIrrigationAdvice(MildCurrent, <<Sample(0, 20, 50, 5, 6, "Rain")>>)}

SprayingAlerts ==
    {analyzeSprayingConditions(MildCurrent, f, 12) : f \in {<<>>, <<MildSample>>}}

HeatAlerts ==
    {assessHeatStress(Current(t, 50, 5), <<>>) : t \in {25, 26, 31, 36, 41}}

InitAdvice ==
    /\ cur = MildCurrent
    /\ fc = <<>>
    /\ alerts \in [given : {TRUE}, frost : FrostAlerts, irrigation : IrrigationAlerts,
                   spraying : SprayingAlerts, heatStress : HeatAlerts]
    /\ ret = NoCall
    /\ RequestIdle

CallGenerateOverallAdvice ==
    /\ ret.fn = "none"
    /\ alerts.given
    /\ ret' = [fn |-> "generateOverallAdvice",
               val |-> generateOverallAdvice(alerts.frost, alerts.irrigation,
                                             alerts.spraying, alerts.heatStress),
               hours |-> 0]
    /\ UNCHANGED <<cur, fc, alerts, requestVars>>

NextAdvice == CallGenerateOverallAdvice

SpecAdvice == InitAdvice /\ [][NextAdvice]_vars

(***************************************************************************)
(* WeatherService: the agricultural insights.                              *)
(***************************************************************************)
\* Math.abs(forecast[0]?.temperature.max - forecast[0]?.temperature.min || 10):
\* the difference is NaN without a first aggregate, and NaN and 0 both give 10.
temperatureRange(forecast) ==
    IF forecast = <<>> THEN 10
    ELSE LET d == forecast[1].temperature.max - forecast[1].temperature.min
         IN  IF d = 0 THEN 10 ELSE IF d < 0 THEN -d ELSE d

\* Math.max(0, 0.0023 * (temp + 17.8) * Math.sqrt(range) * (temp + 273.16) / 273.16 * 2.45).
\* The square root and the constants are not negative, so the value is
\* 0.0023 * 2.45 / 273.16 * sqrt(range) * max(0, (temp + 17.8) * (temp + 273.16));
\* the record keeps the range and that last factor, in thousandths.
evapotranspiration(temp, forecast) ==
    [temperatureRange |-> temperatureRange(forecast),
     factor |-> Max2(0, (10 * temp + 178) * (100 * temp + 27316))]

\* Mutant of frostRisk: every day of the forecast is looked at, not the first 3.
frostRisk_anyDay(forecast) ==
    \E i \in 1..Len(forecast) : forecast[i].temperature.min < 2

\* forecast.forecast.slice(0, 3).some(day => day.temperature.min < 2)
frostRisk(forecast) ==
    LET first3 == slice(forecast, 3)
    IN  \E i \in 1..Len(first3) : first3[i].temperature.min < 2

\* Mutant of irrigationRecommendation: the moderate rule is tried before the high one.
irrigationRecommendation_moderateFirst(temp, humidity) ==
    IF humidity < 60 /\ temp > 20 THEN "Moderate need"
    ELSE IF humidity < 40 /\ temp > 25 THEN "High need"
    ELSE IF humidity > 80 THEN "Low need"
    ELSE "Monitor"

irrigationRecommendation(temp, humidity) ==
    IF humidity < 40 /\ temp > 25 THEN "High need"
    ELSE IF humidity < 60 /\ temp > 20 THEN "Moderate need"
    ELSE IF humidity > 80 THEN "Low need"
    ELSE "Monitor"

\* Mutant of dayDegrees: the day's difference is added unclamped.
dayDegrees_unclamped(average, baseTemp) ==
    [num |-> average.num - baseTemp * average.den, den |-> average.den]

\* A day's contribution Math.max(0, avgTemp - baseTemp), as a fraction.
dayDegrees(average, baseTemp) ==
    [num |-> Max2(0, average.num - baseTemp * average.den), den |-> average.den]

\* total + gdd on fractions
addFraction(a, b) == [num |-> a.num * b.den + b.num * a.den, den |-> a.den * b.den]

\* days.reduce((total, day) => total + gdd, 0): from 0, left to right
RECURSIVE reduceDegrees(_, _)
reduceDegrees(days, baseTemp) ==
    IF days = <<>> THEN [num |-> 0, den |-> 1]
    ELSE LET n == Len(days)
         IN  addFraction(reduceDegrees(SubSeq(days, 1, n - 1), baseTemp),
                         dayDegrees(days[n].temperature.average, baseTemp))

\* calculateGrowingDegreeDays; the total is a fraction.
calculateGrowingDegreeDays(historicalData, baseTemp) ==
    reduceDegrees(historicalData.data, baseTemp)

\* calculateAgriculturalInsights.  soilTemperature is in hundredths of a degree.
calculateAgriculturalInsights(current, forecast) ==
    LET temp == current.current.temperature
        humidity == current.current.humidity
        windSpeed == current.current.windSpeed
        first1 == slice(forecast.forecast, 1)
    IN  [growingDegreeDays |-> Max2(0, temp - 10),
         evapotranspiration |-> evapotranspiration(temp, forecast.forecast),
         soilTemperature |-> temp * 85,
         frostRisk |-> frostRisk(forecast.forecast),
         irrigationRecommendation |-> irrigationRecommendation(temp, humidity),
         sprayingWindow |->
             windSpeed < 15 /\ ~(\E i \in 1..Len(first1) : first1[i].precipitation > 0),
         heatStress |-> temp > 35 \/ (temp > 30 /\ humidity > 70)]

(***************************************************************************)
(* The index engine on probe inputs: cur is the current sample, fc the     *)
(* daily aggregates (forecast.forecast or historicalData.data).            *)
(***************************************************************************)
\* The daily aggregate of the samples of one date with the given temperatures.
Day(date, temps) ==
    aggregate([date |-> date,
               items |-> [i \in 1..Len(temps) |-> Sample(date, temps[i], 50, 5, 0, "Clear")]])

\* Sample temperatures of a day: minimums 1..6, single-sample days among them.
DayTemps == {<<1>>, <<2>>, <<3>>, <<4, 9>>, <<5, 15, 16>>, <<6, 25>>}

\* Sequences of at most maxLen daily aggregates, dates ascending.
DaySeqs(maxLen) ==
    UNION {{[i \in 1..n |-> Day(i, f[i])] : f \in [1..n -> DayTemps]} : n \in 0..maxLen}

\* Current samples around the thresholds of the insights.
InsightCurrents ==
    {Current(t, h, 5) : t \in {-20, 10, 11, 20, 21, 25, 26, 31, 36},
                        h \in {39, 40, 59, 60, 71, 80, 81}}

\* baseTemp arguments; 10 is the default.
BaseTemps == {0, 3, 10, 13}

InitInsights ==
    /\ \/ cur \in InsightCurrents /\ fc \in DaySeqs(1)
       \/ cur = MildCurrent /\ fc \in DaySeqs(MaxDays)
    /\ alerts = NoAlerts
    /\ ret = NoCall
    /\ RequestIdle

CallCalculateAgriculturalInsights ==
    /\ ret.fn = "none"
    /\ ret' = [fn |-> "calculateAgriculturalInsights",
               val |-> calculateAgriculturalInsights(
                           [location |-> Location, current |-> cur],
                           [location |-> Location, forecast |-> fc]),
               hours |-> 0]
    /\ UNCHANGED <<cur, fc, alerts, requestVars>>

CallCalculateGrowingDegreeDays ==
    /\ ret.fn = "none"
    /\ \E baseTemp \in BaseTemps :
          ret' = [fn |-> "calculateGrowingDegreeDays",
                  val |-> calculateGrowingDegreeDays([location |-> Location, data |-> fc],
                                                     baseTemp),
                  hours |-> 0, baseTemp |-> baseTemp]
    /\ UNCHANGED <<cur, fc, alerts, requestVars>>

NextInsights ==
    \/ CallCalculateAgriculturalInsights
    \/ CallCalculateGrowingDegreeDays

SpecInsights == InitInsights /\ [][NextInsights]_vars

(***************************************************************************)
(* The composed entry points.  Each takes the completions of the sub-calls *)
(* it awaited; a rejected sub-call would make the await throw.             *)
(***************************************************************************)
\* await Promise.all([...]): the first rejection, if any.
RECURSIVE firstRejection(_)
firstRejection(completions) ==
    IF completions = <<>> THEN Return(Null)
    ELSE IF Head(completions).thrown THEN Head(completions)
    ELSE firstRejection(Tail(completions))

\* Mutant of getAgriculturalWeatherBody: the success of the hourly forecast, which the
\* insights do not read, is not tested.
getAgriculturalWeatherBody_forecastUntested(currentC, forecastC, dailyC) ==
    IF firstRejection(<<currentC, forecastC, dailyC>>).thrown
    THEN firstRejection(<<currentC, forecastC, dailyC>>)
    ELSE LET current == currentC.value
             forecast == forecastC.value
             dailyForecast == dailyC.value
         IN  IF ~current.success \/ ~dailyForecast.success
             THEN Throw("Failed to fetch complete weather data")
             ELSE Return([success |-> TRUE,
                          data |-> [current |-> current.data,
                                    forecast |-> IF forecast.success THEN forecast.data
                                                 ELSE [location |-> Location,
                                                       forecast |-> <<>>],
                                    dailyForecast |-> dailyForecast.data,
                                    insights |-> calculateAgriculturalInsights(
                                                     current.data, dailyForecast.data)],
                          timestamp |-> Timestamp])

getAgriculturalWeatherBody(currentC, forecastC, dailyC) ==
    IF firstRejection(<<currentC, forecastC, dailyC>>).thrown
    THEN firstRejection(<<currentC, forecastC, dailyC>>)
    ELSE LET current == currentC.value
             forecast == forecastC.value
             dailyForecast == dailyC.value
         IN  IF ~current.success \/ ~forecast.success \/ ~dailyForecast.success
             THEN Throw("Failed to fetch complete weather data")
             ELSE Return([success |-> TRUE,
                          data |-> [current |-> current.data,
                                    forecast |-> forecast.data,
                                    dailyForecast |-> dailyForecast.data,
                                    insights |-> calculateAgriculturalInsights(
                                                     current.data, dailyForecast.data)],
                          timestamp |-> Timestamp])

getAgriculturalWeather(currentC, forecastC, dailyC) ==
    CatchWithTimestamp(getAgriculturalWeatherBody(currentC, forecastC, dailyC))

getCropAdvisoryBody(currentC, hourlyC, hours) ==
    IF firstRejection(<<currentC, hourlyC>>).thrown
    THEN firstRejection(<<currentC, hourlyC>>)
    ELSE LET currentWeather == currentC.value
             hourlyForecast == hourlyC.value
         IN  IF ~currentWeather.success \/ ~hourlyForecast.success
             THEN Throw("Failed to fetch weather data for analysis")
             ELSE LET current == currentWeather.data.current
                      forecast == hourlyForecast.data.forecast
                      frost == analyzeFrostRisk(current.temperature, forecast)
                      irrigation == generateIrrigationAdvice(current, forecast)
                      spraying == analyzeSprayingConditions(current, forecast, hours)
                      heatStress == assessHeatStress(current, forecast)
                      overall == generateOverallAdvice(frost, irrigation, spraying, heatStress)
                  IN  Return([success |-> TRUE,
                              data |-> [location |-> currentWeather.data.location,
                                        frost |-> frost,
                                        irrigation |-> irrigation,
                                        spraying |-> spraying,
                                        heatStress |-> heatStress,
                                        generalAdvice |-> overall.generalAdvice,
                                        priority |-> overall.priority,
                                        lastUpdated |-> Timestamp],
                              timestamp |-> Timestamp])

\* Mutant of getCropAdvisory: no try / catch around the body.
getCropAdvisory_noCatch(currentC, hourlyC, hours) ==
    getCropAdvisoryBody(currentC, hourlyC, hours)

\* Mutant of getCropAdvisory: its catch block is the one of getFrostAlert, which
\* returns no timestamp.
getCropAdvisory_plainCatch(currentC, hourlyC, hours) ==
    CatchPlain(getCropAdvisoryBody(currentC, hourlyC, hours))

getCropAdvisory(currentC, hourlyC, hours) ==
    CatchWithTimestamp(getCropAdvisoryBody(currentC, hourlyC, hours))

\* Mutant of getIrrigationAdviceBody: a failed current fetch is replaced by a
\* default sample, as getFrostAlert does with the current temperature.
getIrrigationAdviceBody_defaultCurrent(currentC, forecastC) ==
    IF firstRejection(<<currentC, forecastC>>).thrown
    THEN firstRejection(<<currentC, forecastC>>)
    ELSE IF ~forecastC.value.success THEN Throw("Weather data unavailable")
    ELSE Return([success |-> TRUE,
                 data |-> generateIrrigationAdvice(
                              IF currentC.value.success
                              THEN currentC.value.data.current
                              ELSE [temperature |-> 20, humidity |-> 50],
                              forecastC.value.data.forecast)])

getIrrigationAdviceBody(currentC, forecastC) ==
    IF firstRejection(<<currentC, forecastC>>).thrown
    THEN firstRejection(<<currentC, forecastC>>)
    ELSE LET current == currentC.value
             forecast == forecastC.value
         IN  IF ~current.success \/ ~forecast.success
             THEN Throw("Weather data unavailable")
             ELSE Return([success |-> TRUE,
                          data |-> generateIrrigationAdvice(current.data.current,
                                                            forecast.data.forecast)])

getIrrigationAdvice(currentC, forecastC) ==
    CatchPlain(getIrrigationAdviceBody(currentC, forecastC))

\* getFrostAlert up to its first await: the forecast decides whether it goes on.
getFrostAlertForecastFailed(forecastC) ==
    forecastC.thrown \/ ~forecastC.value.success

\* getFrostAlert ending at the forecast check.
getFrostAlertAbort(forecastC) ==
    CatchPlain(IF forecastC.thrown THEN forecastC ELSE Throw("Weather data unavailable"))

\* getFrostAlert after its second await.
\* current.data?.current.temperature || 20: no data, or a temperature of 0, gives 20.
getFrostAlertFinish(forecastC, currentC) ==
    CatchPlain(
        IF currentC.thrown THEN currentC
        ELSE LET current == currentC.value
                 currentTemp ==
                     IF "data" \in DOMAIN current /\ current.data.current.temperature # 0
                     THEN current.data.current.temperature
                     ELSE 20
             IN  Return([success |-> TRUE,
                         data |-> analyzeFrostRisk(currentTemp,
                                                   forecastC.value.data.forecast)]))

(***************************************************************************)
(* getCropAdvisory on probe inputs: both fetches succeeded, with cur as    *)
(* the current sample and fc as the hourly forecast.                       *)
(***************************************************************************)
\* Forecasts with a good spraying window followed by a cold sample.
FrostyWindowForecasts ==
    {<<MildSample, Sample(0, t, 50, 5, 0, "Clear")>> : t \in {-3, 0, 2, 5}}

InitCropAnalysis ==
    \/ InitClassifier
    \/ /\ cur = MildCurrent
       /\ fc \in FrostyWindowForecasts
       /\ alerts = NoAlerts
       /\ ret = NoCall
       /\ RequestIdle

CallGetCropAdvisory ==
    /\ ret.fn = "none"
    /\ \E hours \in Hours :
          ret' = [fn |-> "getCropAdvisory",
                  val |-> getCropAdvisory(
                              Return([success |-> TRUE,
                                      data |-> [location |-> Location, current |-> cur],
                                      timestamp |-> Timestamp]),
                              Return([success |-> TRUE,
                                      data |-> [location |-> Location, forecast |-> fc],
                                      timestamp |-> Timestamp]),
                              hours).value,
                  hours |-> hours]
    /\ UNCHANGED <<cur, fc, alerts, requestVars>>

NextCropAnalysis == CallGetCropAdvisory

SpecCropAnalysis == InitCropAnalysis /\ [][NextCropAnalysis]_vars

(***************************************************************************)
(* Requests.  One request runs at a time: requests share no state.         *)
(***************************************************************************)
EntryPoints ==
    {"getCurrentWeather", "getHourlyForecast", "getDailyForecast", "getHistoricalWeather",
     "getHistoricalDailyWeather", "getAgriculturalWeather", "getCropAdvisory",
     "getFrostAlert", "getIrrigationAdvice"}

\* The sub-calls an entry point starts with, each waiting for one provider answer.
firstFetches(o) ==
    CASE o = "getCurrentWeather"         -> {"current"}
      [] o = "getHourlyForecast"         -> {"hourly"}
      [] o = "getDailyForecast"          -> {"daily"}
      [] o = "getHistoricalWeather"      -> {"history"}
      [] o = "getHistoricalDailyWeather" -> {"historical"}
      [] o = "getAgriculturalWeather"    -> {"current", "hourly", "daily"}
      [] o = "getCropAdvisory"           -> {"current", "hourly"}
      [] o = "getFrostAlert"             -> {"hourly"}
      [] o = "getIrrigationAdvice"       -> {"current", "hourly"}

\* The provider endpoint a sub-call fetches from.
endpoint(slot) ==
    CASE slot = "current"    -> "weather"
      [] slot = "hourly"     -> "forecast"
      [] slot = "daily"      -> "forecast"
      [] slot = "history"    -> "history"
      [] slot = "historical" -> "history"

issued(count, slots) ==
    [e \in DOMAIN count |-> count[e] + Cardinality({s \in slots : endpoint(s) = e})]

\* Entry points that are one sub-call: its envelope is what the caller gets.
Simple == {"getCurrentWeather", "getHourlyForecast", "getDailyForecast",
           "getHistoricalWeather", "getHistoricalDailyWeather"}

RawItem(dt, temp, wind, rain, weather) ==
    [dt |-> dt, temp |-> temp, humidity |-> 50, pressure |-> 1013, wind |-> wind,
     rain |-> rain, weather |-> weather]

\* Provider samples: two of day 0, one of day 1, one of day 2.
RawItems ==
    {RawItem(3 * 3600, 1, 5, <<>>, "Clear"),
     RawItem(21 * 3600, 12, 14, <<6>>, "Rain"),
     RawItem(27 * 3600, 31, 5, <<>>, "Clouds"),
     RawItem(48 * 3600, 20, 14, <<0>>, "Mist")}

RawLists(maxLen) == UNION {[1..n -> RawItems] : n \in 0..maxLen}

RawCurrents ==
    {[temp |-> 20, humidity |-> 50, pressure |-> 1013, wind |-> 5, weather |-> "Clear"],
     [temp |-> 36, humidity |-> 34, pressure |-> 1013, wind |-> 21, weather |-> "Clear"]}

Failures ==
    {[kind |-> "reject", message |-> "Request failed with status code 401"],
     [kind |-> "malformed", message |-> "Cannot read properties of undefined"]}

WeatherOutcomes == {[kind |-> "ok", data |-> d] : d \in RawCurrents} \cup Failures
ListOutcomes(maxLen) == {[kind |-> "ok", data |-> l] : l \in RawLists(maxLen)} \cup Failures

Init ==
    /\ cur = MildCurrent
    /\ fc = <<>>
    /\ alerts = NoAlerts
    /\ ret = NoCall
    /\ RequestIdle

\* A caller invokes an entry point, which issues its first provider calls.
Call(o) ==
    /\ pc = "idle"
    /\ op' = o
    /\ pc' = "waiting"
    /\ pending' = firstFetches(o)
    /\ calls' = issued(calls, firstFetches(o))
    /\ UNCHANGED <<resp, answers, result, classifierVars>>

\* The provider answers a sub-call with outcome, and the sub-call completes with c.
Complete(slot, outcome, c) ==
    /\ pc = "waiting"
    /\ slot \in pending
    /\ pending' = pending \ {slot}
    /\ answers' = answers @@ (slot :> outcome)
    /\ resp' = resp @@ (slot :> c)
    /\ IF op \in Simple
       THEN pc' = "done" /\ result' = c
       ELSE pc' = pc /\ result' = result
    /\ UNCHANGED <<op, calls, classifierVars>>

RespondWeather ==
    \E outcome \in WeatherOutcomes :
        Complete("current", outcome, getCurrentWeather(outcome))

RespondForecast ==
    \E outcome \in ListOutcomes(MaxList) :
        Complete("hourly", outcome, getHourlyForecast(outcome))

RespondForecastForDaily(maxLen) ==
    \E outcome \in ListOutcomes(maxLen) :
        Complete("daily", outcome, getDailyForecast(outcome))

RespondHistory(maxLen) ==
    \E outcome \in ListOutcomes(maxLen) :
        Complete("historical", outcome, getHistoricalDailyWeather(outcome))

RespondHistoricalWeather ==
    \E outcome \in ListOutcomes(MaxList) :
        Complete("history", outcome, getHistoricalWeather(outcome))

\* The continuation of an entry point once everything it awaited has completed.
Finish(o, completion) ==
    /\ op = o
    /\ pc = "waiting"
    /\ pending = {}
    /\ pc' = "done"
    /\ result' = completion
    /\ UNCHANGED <<op, pending, resp, answers, calls, classifierVars>>

JoinAgriculturalWeather ==
    /\ op = "getAgriculturalWeather" /\ pending = {} /\ pc = "waiting"
    /\ Finish("getAgriculturalWeather",
              getAgriculturalWeather(resp["current"], resp["hourly"], resp["daily"]))

JoinCropAdvisory ==
    /\ op = "getCropAdvisory" /\ pending = {} /\ pc = "waiting"
    /\ \E hours \in Hours :
          Finish("getCropAdvisory", getCropAdvisory(resp["current"], resp["hourly"], hours))

JoinIrrigationAdvice ==
    /\ op = "getIrrigationAdvice" /\ pending = {} /\ pc = "waiting"
    /\ Finish("getIrrigationAdvice", getIrrigationAdvice(resp["current"], resp["hourly"]))

\* getFrostAlert after its forecast: it gives up, or fetches the current weather.
FrostAlertAfterForecast ==
    /\ op = "getFrostAlert" /\ pending = {} /\ pc = "waiting"
    /\ DOMAIN resp = {"hourly"}
    /\ IF getFrostAlertForecastFailed(resp["hourly"])
       THEN /\ pc' = "done"
            /\ result' = getFrostAlertAbort(resp["hourly"])
            /\ UNCHANGED <<pending, calls>>
       ELSE /\ pending' = {"current"}
            /\ calls' = issued(calls, {"current"})
            /\ UNCHANGED <<pc, result>>
    /\ UNCHANGED <<op, resp, answers, classifierVars>>

FrostAlertAfterCurrent ==
    /\ op = "getFrostAlert" /\ pending = {} /\ pc = "waiting"
    /\ DOMAIN resp = {"hourly", "current"}
    /\ Finish("getFrostAlert", getFrostAlertFinish(resp["hourly"], resp["current"]))

Next ==
    \/ \E o \in EntryPoints : Call(o)
    \/ RespondWeather
    \/ RespondForecast
    \/ RespondForecastForDaily(MaxList)
    \/ RespondHistory(MaxList)
    \/ RespondHistoricalWeather
    \/ JoinAgriculturalWeather
    \/ JoinCropAdvisory
    \/ JoinIrrigationAdvice
    \/ FrostAlertAfterForecast
    \/ FrostAlertAfterCurrent

Spec == Init /\ [][Next]_vars

\* The two daily aggregations alone, on longer provider lists.
NextDaily ==
    \/ Call("getDailyForecast")
    \/ Call("getHistoricalDailyWeather")
    \/ RespondForecastForDaily(MaxDailyList)
    \/ RespondHistory(MaxDailyList)

SpecDaily == Init /\ [][NextDaily]_vars

\* The three fetches alone, answered with payloads in which main or wind lacks a number.
NumericKeys == {"temp", "humidity", "pressure", "wind"}

\* The payload without one of its numbers.
Without(payload, key) == [k \in DOMAIN payload \ {key} |-> payload[k]]

SparseItems ==
    RawItems \cup {Without(RawItem(3 * 3600, 1, 5, <<>>, "Clear"), key) : key \in NumericKeys}

SparseLists(maxLen) == UNION {[1..n -> SparseItems] : n \in 0..maxLen}

SparseCurrents ==
    RawCurrents \cup {Without(d, key) : d \in RawCurrents, key \in NumericKeys}

NormalizeCurrent ==
    \E outcome \in {[kind |-> "ok", data |-> d] : d \in SparseCurrents} \cup Failures :
        Complete("current", outcome, getCurrentWeather(outcome))

NormalizeForecast ==
    \E outcome \in {[kind |-> "ok", data |-> l] : l \in SparseLists(MaxList)} \cup Failures :
        Complete("hourly", outcome, getHourlyForecast(outcome))

NormalizeHistory ==
    \E outcome \in {[kind |-> "ok", data |-> l] : l \in SparseLists(MaxList)} \cup Failures :
        Complete("history", outcome, getHistoricalWeather(outcome))

NextNormalize ==
    \/ Call("getCurrentWeather")
    \/ Call("getHourlyForecast")
    \/ Call("getHistoricalWeather")
    \/ NormalizeCurrent
    \/ NormalizeForecast
    \/ NormalizeHistory

SpecNormalize == Init /\ [][NextNormalize]_vars

(***************************************************************************)
(* Properties of the classifiers and of the synthesizer.                   *)
(***************************************************************************)
\* Positions (1-based) of the first n samples of the forecast input.
Window(n) == 1..Min2(n, Len(fc))

\* Precipitation summed over the first 16 forecast samples.
RainTotal == Sum([i \in Window(16) |-> fc[i].precipitation])

\* C5: irrigation is "skip" exactly when the precipitation summed over the first 16
\* forecast samples exceeds 5 mm, whatever the current temperature and humidity.
C5_RainPreemption ==
    ret.fn = "generateIrrigationAdvice" =>
        /\ (ret.val.recommendation = "skip") <=> (RainTotal > 5)
        /\ RainTotal > 5 =>
              \A c \in StressCurrents :
                  generateIrrigationAdvice(c, fc).recommendation = "skip"

\* C5 witness: extreme water stress, more than 5 mm of rain ahead, advice is skip.
C5_Witness ==
    /\ ret.fn = "generateIrrigationAdvice"
    /\ cur.temperature > 35 /\ cur.humidity < 35
    /\ RainTotal > 5
    /\ ret.val.recommendation = "skip"

\* The water-stress tier the claim names for a (temperature, humidity) pair.
StressTier(t, h) ==
    IF t > 35 /\ h < 35 THEN "immediate"
    ELSE IF t > 30 /\ h < 40 THEN "within_24h"
    ELSE IF t > 25 /\ h < 50 THEN "within_48h"
    ELSE "monitor"

\* C9: with at most 5 mm of rain in the window, the irrigation advice is the most
\* urgent water-stress tier the (temperature, humidity) pair satisfies, and
\* humidity 75 gives monitor.
C9_MostUrgentTier ==
    (ret.fn = "generateIrrigationAdvice" /\ RainTotal <= 5) =>
        /\ ret.val.recommendation = StressTier(cur.temperature, cur.humidity)
        /\ ret.val.recommendation \in Recommendations \ {"skip"}
        /\ cur.humidity = 75 => ret.val.recommendation = "monitor"

\* C9 witness: a pair that satisfies all three stress tiers gets "immediate".
C9_Witness ==
    /\ ret.fn = "generateIrrigationAdvice"
    /\ RainTotal <= 5
    /\ cur.temperature > 35 /\ cur.humidity < 35
    /\ ret.val.recommendation = "immediate"

\* The least temperature among the first 8 forecast samples (forecast not empty).
WindowMinimum ==
    CHOOSE m \in {fc[i].temperature : i \in Window(8)} :
        \A i \in Window(8) : m <= fc[i].temperature

\* C7: the frost risk is the tier of the minimum temperature of the first 8 forecast
\* samples, the reported temperature is that minimum, and the current temperature
\* plays no part.
C7_FrostTiers ==
    (ret.fn = "analyzeFrostRisk" /\ fc # <<>>) =>
        LET m == WindowMinimum
        IN  /\ ret.val.temperature = m
            /\ ret.val.risk \in FrostRisks
            /\ (ret.val.risk = "critical") <=> (m <= -2)
            /\ (ret.val.risk = "high") <=> (-2 < m /\ m <= 0)
            /\ (ret.val.risk = "moderate") <=> (0 < m /\ m <= 2)
            /\ (ret.val.risk = "low") <=> (2 < m /\ m <= 5)
            /\ (ret.val.risk = "none") <=> (m > 5)
            /\ \A t \in {-5, 0, 20, 40} : analyzeFrostRisk(t, fc) = ret.val

\* C7 witness: a freezing 9th sample and a freezing current temperature are both
\* ignored; the first 8 samples decide.
C7_Witness ==
    /\ ret.fn = "analyzeFrostRisk"
    /\ Len(fc) = 9
    /\ fc[9].temperature = -3
    /\ cur.temperature = -5
    /\ WindowMinimum = 1
    /\ ret.val.risk = "moderate"

\* The heat-stress tier the claim names for a (temperature, humidity) pair.
HeatTier(t, h) ==
    IF t > 40 \/ (t > 35 /\ h > 70) THEN "extreme"
    ELSE IF t > 35 \/ (t > 30 /\ h > 80) THEN "high"
    ELSE IF t > 30 \/ (t > 25 /\ h > 85) THEN "moderate"
    ELSE IF t > 25 THEN "low"
    ELSE "none"

HeatRank(risk) ==
    CASE risk = "none" -> 0 [] risk = "low" -> 1 [] risk = "moderate" -> 2
      [] risk = "high" -> 3 [] risk = "extreme" -> 4

\* C8: heat stress is the first matching tier; 38 degrees at 75 percent is extreme;
\* the risk never decreases when the temperature rises at fixed humidity.
C8_HeatTiers ==
    ret.fn = "assessHeatStress" =>
        /\ ret.val.risk \in HeatRisks
        /\ ret.val.risk = HeatTier(cur.temperature, cur.humidity)
        /\ (cur.temperature = 38 /\ cur.humidity = 75) => ret.val.risk = "extreme"
        /\ \A t \in 20..45 :
              t >= cur.temperature =>
                  HeatRank(assessHeatStress([cur EXCEPT !.temperature = t], fc).risk)
                      >= HeatRank(ret.val.risk)

\* C8 witness: the example of the specification, 38 degrees at 75 percent.
C8_Witness ==
    /\ ret.fn = "assessHeatStress"
    /\ cur.temperature = 38 /\ cur.humidity = 75
    /\ ret.val.risk = "extreme"

\* Positions of the good-window samples among the first 8 forecast samples.
GoodPositions ==
    {i \in Window(8) :
        /\ fc[i].windSpeed < 15
        /\ fc[i].precipitation = 0
        /\ fc[i].temperature > 10
        /\ fc[i].temperature < 30}

EarliestGood == CHOOSE i \in GoodPositions : \A j \in GoodPositions : i <= j

\* C10: spraying is suitable exactly when the wind is not above 20, the temperature
\* not above 30 and a good window exists among the first 8 samples; with wind above
\* 20 the next opportunity is 3 hours times the 0-based position of the earliest
\* good window.
C10_SprayingSuitable ==
    ret.fn = "analyzeSprayingConditions" =>
        /\ ret.val.suitable <=>
              (~(cur.windSpeed > 20) /\ ~(cur.temperature > 30) /\ GoodPositions # {})
        /\ (cur.windSpeed > 20 /\ GoodPositions # {}) =>
              /\ ~ret.val.suitable
              /\ ret.val.nextOpportunity =
                    <<"Next opportunity in hours", 3 * (EarliestGood - 1)>>

\* C10 witness: wind above 20 with the earliest good window at the third sample.
C10_Witness ==
    /\ ret.fn = "analyzeSprayingConditions"
    /\ cur.windSpeed > 20
    /\ GoodPositions # {}
    /\ EarliestGood = 3
    /\ ~ret.val.suitable
    /\ ret.val.nextOpportunity = <<"Next opportunity in hours", 6>>

C20_MorningHintByForecastOffset ==
    (ret.fn = "analyzeSprayingConditions" /\ ret.val.suitable) =>
        ((ret.val.bestTime = "Early morning (6-10 AM) recommended for optimal results")
            <=> \E i \in GoodPositions :
                    LET hour == (ret.hours + 3 * (i - 1)) % 24
                    IN  hour >= 6 /\ hour <= 10)

\* The priority the claim names for three alert values.
PriorityOf(frost, heat, recommendation) ==
    IF frost = "critical" \/ heat = "extreme" \/ recommendation = "immediate"
    THEN "urgent"
    ELSE IF frost = "high" \/ heat = "high" \/ recommendation = "within_24h"
    THEN "high"
    ELSE IF frost = "moderate" \/ heat = "moderate" \/ recommendation = "within_48h"
    THEN "medium"
    ELSE "low"

\* C6: the priority is the cascade urgent / high / medium / low over the frost risk,
\* the heat-stress risk and the irrigation recommendation, and is the same for
\* either spraying result.
C6_PriorityCascade ==
    ret.fn = "generateOverallAdvice" =>
        /\ ret.val.priority \in Priorities
        /\ ret.val.priority = PriorityOf(alerts.frost.risk, alerts.heatStress.risk,
                                         alerts.irrigation.recommendation)
        /\ \A s \in SprayingAlerts :
              generateOverallAdvice(alerts.frost, alerts.irrigation, s,
                                    alerts.heatStress).priority = ret.val.priority

\* C6 witness: only the irrigation advice (within_24h) raises the priority, which
\* is high although spraying is suitable.
C6_Witness ==
    /\ ret.fn = "generateOverallAdvice"
    /\ alerts.frost.risk = "none"
    /\ alerts.heatStress.risk = "low"
    /\ alerts.irrigation.recommendation = "within_24h"
    /\ alerts.spraying.suitable
    /\ ret.val.priority = "high"

\* C25: the general advice has 1 to 4 entries and ends with the check-updates advice;
\* the priority advice, the rain advice and the optimal-conditions advice are never
\* all three present; the priority advice is present exactly when the priority is
\* not low.
C25_AdviceList ==
    ret.fn = "generateOverallAdvice" =>
        LET advice == ret.val.generalAdvice
            has(text) == \E i \in 1..Len(advice) : advice[i] = text
            priorityAdvice == has(AdviceUrgent) \/ has(AdviceHigh) \/ has(AdviceMedium)
        IN  /\ Len(advice) >= 1
            /\ Len(advice) <= 4
            /\ advice[Len(advice)] = AdviceUpdates
            /\ ~(priorityAdvice /\ has(AdviceRain) /\ has(AdviceOptimal))
            /\ priorityAdvice <=> (ret.val.priority # "low")

\* C25 witness: moderate frost, rain ahead and suitable spraying give the 4 entries
\* medium priority, spraying, rain, check updates.
C25_Witness ==
    /\ ret.fn = "generateOverallAdvice"
    /\ alerts.frost.risk = "moderate"
    /\ alerts.irrigation.recommendation = "skip"
    /\ alerts.spraying.suitable
    /\ ret.val.generalAdvice = <<AdviceMedium, AdviceSpraying, AdviceRain, AdviceUpdates>>

\* C26: in a successful getCropAdvisory result, suitable spraying never comes with a
\* high or extreme heat stress nor with irrigation immediate or within_24h; its
\* priority is urgent or high only through the frost risk.
C26_SuitableSprayingIsCalm ==
    (ret.fn = "getCropAdvisory" /\ ret.val.success /\ ret.val.data.spraying.suitable) =>
        /\ ret.val.data.heatStress.risk \notin {"high", "extreme"}
        /\ ret.val.data.irrigation.recommendation \notin {"immediate", "within_24h"}
        /\ ret.val.data.priority \in {"urgent", "high"} =>
              ret.val.data.frost.risk \in {"critical", "high"}
        /\ ret.val.data.priority = "urgent" <=> ret.val.data.frost.risk = "critical"
        /\ ret.val.data.priority = "high" <=> ret.val.data.frost.risk = "high"

\* C26 witness: suitable spraying in an advisory of high priority, through a high
\* frost risk.
C26_Witness ==
    /\ ret.fn = "getCropAdvisory"
    /\ ret.val.success
    /\ ret.val.data.spraying.suitable
    /\ ret.val.data.frost.risk = "high"
    /\ ret.val.data.priority = "high"

(***************************************************************************)
(* Properties of the daily aggregations.                                   *)
(***************************************************************************)
DailyOps == {"getDailyForecast", "getHistoricalDailyWeather"}

\* A daily aggregation has returned a successful envelope.
DailyDone ==
    /\ pc = "done"
    /\ op \in DailyOps
    /\ ~result.thrown
    /\ result.value.success

\* The samples the aggregation grouped: the provider's list, normalized.
DailyInput ==
    normalizeList(answers[IF op = "getDailyForecast" THEN "daily" ELSE "historical"].data)

\* The aggregates it returned.
DailyOutput ==
    IF op = "getDailyForecast" THEN result.value.data.forecast ELSE result.value.data.data

\* C1: both daily aggregations return one aggregate per distinct sample date, no date
\* twice, and every sample is counted in the aggregate of its date and in no other.
C1_Grouping ==
    DailyDone =>
        LET in == DailyInput
            out == DailyOutput
            ofDate(d) == {i \in 1..Len(in) : in[i].date = d}
        IN  /\ {out[k].date : k \in 1..Len(out)} = {in[i].date : i \in 1..Len(in)}
            /\ \A j, k \in 1..Len(out) : j # k => out[j].date # out[k].date
            /\ \A k \in 1..Len(out) :
                  /\ out[k].temperature.average.den = Cardinality(ofDate(out[k].date))
                  /\ out[k].temperature.average.num =
                        Sum([i \in 1..Len(in) |->
                                IF in[i].date = out[k].date THEN in[i].temperature ELSE 0])
            /\ Sum([k \in 1..Len(out) |-> out[k].temperature.average.den]) = Len(in)

\* C1 witness: a forecast whose first and third samples share a date the second
\* sample does not have, so that a group is not contiguous in the input.
C1_Witness ==
    /\ DailyDone
    /\ op = "getDailyForecast"
    /\ Len(DailyInput) >= 3
    /\ DailyInput[1].date = DailyInput[3].date
    /\ DailyInput[1].date # DailyInput[2].date
    /\ Len(DailyOutput) < Len(DailyInput)

\* C2: the aggregates of both daily aggregations are in strictly ascending date order.
C2_AscendingDates ==
    DailyDone =>
        \A k \in 1..(Len(DailyOutput) - 1) : DailyOutput[k].date < DailyOutput[k + 1].date

\* The samples of the input that have the date of the k-th aggregate, in input order.
GroupOf(k) ==
    LET sameDate(sample) == sample.date = DailyOutput[k].date
    IN  SelectSeq(DailyInput, sameDate)

\* C14: the weather condition of a daily aggregate is that of the sample at 0-based
\* position floor(n / 2) among the n samples of its date, in input order.
C14_RepresentativeCondition ==
    DailyDone =>
        \A k \in 1..Len(DailyOutput) :
            LET n == Len(GroupOf(k))
            IN  /\ n >= 1
                /\ DailyOutput[k].weather = GroupOf(k)[(n \div 2) + 1].weather
                /\ n = 5 => DailyOutput[k].weather = GroupOf(k)[3].weather
                /\ n = 1 => DailyOutput[k].weather = GroupOf(k)[1].weather

\* C14 witness: a day of 5 samples of which only the 3rd is "Rain"; the aggregate is "Rain".
C14_Witness ==
    /\ DailyDone
    /\ Len(DailyInput) = 5
    /\ Len(DailyOutput) = 1
    /\ \A i \in 1..5 : (DailyInput[i].weather = "Rain") <=> (i = 3)
    /\ DailyOutput[1].weather = "Rain"

\* The provider answered the daily aggregation with an empty list of samples.
EmptyAnswer ==
    /\ pc = "done"
    /\ op \in DailyOps
    /\ \E s \in DOMAIN answers : answers[s].kind = "ok" /\ answers[s].data = <<>>

\* C15: an empty list of samples gives success = true with an empty sequence of
\* aggregates, not an error.
C15_EmptyInputEmptyOutput ==
    EmptyAnswer =>
        /\ ~result.thrown
        /\ result.value.success
        /\ "error" \notin DOMAIN result.value
        /\ "data" \in DOMAIN result.value
        /\ DailyOutput = <<>>

\* C15 witness: getHistoricalDailyWeather answered with no sample returns no aggregate.
C15_Witness ==
    /\ EmptyAnswer
    /\ op = "getHistoricalDailyWeather"
    /\ result.value.success
    /\ result.value.data.data = <<>>

(***************************************************************************)
(* Properties of the requests.                                             *)
(***************************************************************************)
Composed == {"getCropAdvisory", "getIrrigationAdvice", "getAgriculturalWeather"}

\* A sub-call of the request was unsuccessful.
SomeFetchUnsuccessful ==
    \E s \in DOMAIN resp : resp[s].thrown \/ ~resp[s].value.success

\* C3: a composed request one of whose fetches was unsuccessful returns success =
\* false with an error message and no data, in whatever order the fetches completed.
C3_NoPartialResult ==
    (pc = "done" /\ op \in Composed /\ SomeFetchUnsuccessful) =>
        /\ ~result.thrown
        /\ ~result.value.success
        /\ "error" \in DOMAIN result.value
        /\ result.value.error # ""
        /\ "data" \notin DOMAIN result.value

\* C3 witness: getIrrigationAdvice whose current-weather fetch failed while its
\* forecast fetch succeeded.
C3_Witness ==
    /\ pc = "done"
    /\ op = "getIrrigationAdvice"
    /\ answers["current"].kind = "reject"
    /\ resp["hourly"].value.success
    /\ ~result.value.success
    /\ "data" \notin DOMAIN result.value

FrostRiskFor(days) ==
    calculateAgriculturalInsights([location |-> Location, current |-> cur],
                                  [location |-> Location, forecast |-> days]).frostRisk

\* C11: frostRisk is true exactly when one of the first 3 daily aggregates has a
\* minimum below 2; the days after the third never matter; lowering one of the first
\* 3 minimums never turns frostRisk from true to false.
C11_FrostRiskFirstThree ==
    ret.fn = "calculateAgriculturalInsights" =>
        /\ ret.val.frostRisk <=> (\E i \in Window(3) : fc[i].temperature.min < 2)
        /\ \A i \in 4..Len(fc) : \A m \in {-5, 1, 2} :
              FrostRiskFor([fc EXCEPT ![i].temperature.min = m]) = ret.val.frostRisk
        /\ \A i \in Window(3) : \A m \in -1..fc[i].temperature.min :
              ret.val.frostRisk => FrostRiskFor([fc EXCEPT ![i].temperature.min = m])

\* C11 witness: minimums 3, 4, 6 and then 1 on the fourth day give no frost risk.
C11_Witness ==
    /\ ret.fn = "calculateAgriculturalInsights"
    /\ Len(fc) = 4
    /\ fc[1].temperature.min = 3 /\ fc[2].temperature.min = 4
    /\ fc[3].temperature.min = 6 /\ fc[4].temperature.min = 1
    /\ ~ret.val.frostRisk

RECURSIVE Product(_)
Product(xs) == IF xs = <<>> THEN 1 ELSE Head(xs) * Product(Tail(xs))

\* A common denominator of the day averages of fc.
CommonDen == Product([i \in 1..Len(fc) |-> fc[i].temperature.average.den])

\* fc without its i-th day.
WithoutDay(i) == SubSeq(fc, 1, i - 1) \o SubSeq(fc, i + 1, Len(fc))

\* C12: the instantaneous growing degree days are max(0, T - 10); the cumulative
\* value is the sum over the days of max(0, average - base), never negative, 0 when
\* no day average exceeds the base, and no day reduces the total.
C12_DegreeDaysNeverNegative ==
    /\ ret.fn = "calculateAgriculturalInsights" =>
          /\ ret.val.growingDegreeDays >= 0
          /\ ret.val.growingDegreeDays =
                (IF cur.temperature > 10 THEN cur.temperature - 10 ELSE 0)
          /\ cur.temperature <= 10 => ret.val.growingDegreeDays = 0
    /\ ret.fn = "calculateGrowingDegreeDays" =>
          LET total == ret.val
              base == ret.baseTemp
              avg(i) == fc[i].temperature.average
              \* max(0, average - base) of day i, times CommonDen
              scaled(i) == LET d == avg(i).num * (CommonDen \div avg(i).den) - base * CommonDen
                           IN  IF d > 0 THEN d ELSE 0
          IN  /\ total.den > 0
              /\ total.num >= 0
              /\ total.num * CommonDen = Sum([i \in 1..Len(fc) |-> scaled(i)]) * total.den
              /\ (\A i \in 1..Len(fc) : avg(i).num <= base * avg(i).den) => total.num = 0
              /\ \A i \in 1..Len(fc) :
                    LET rest == calculateGrowingDegreeDays(
                                    [location |-> Location, data |-> WithoutDay(i)], base)
                    IN  total.num * rest.den >= rest.num * total.den

\* C12 witness: base 13, a day of average 12 and a day of average 31/2: the total is 5/2.
C12_Witness ==
    /\ ret.fn = "calculateGrowingDegreeDays"
    /\ ret.baseTemp = 13
    /\ Len(fc) = 2
    /\ fc[1].temperature.average = [num |-> 36, den |-> 3]
    /\ fc[2].temperature.average = [num |-> 31, den |-> 2]
    /\ 2 * ret.val.num = 5 * ret.val.den

\* C13: the irrigation label is one of the four, chosen by first match: humidity < 40
\* and temp > 25, else humidity < 60 and temp > 20, else humidity > 80, else Monitor.
C13_IrrigationLabel ==
    ret.fn = "calculateAgriculturalInsights" =>
        LET label == ret.val.irrigationRecommendation
            high == cur.humidity < 40 /\ cur.temperature > 25
            moderate == cur.humidity < 60 /\ cur.temperature > 20
            low == cur.humidity > 80
        IN  /\ label \in {"High need", "Moderate need", "Low need", "Monitor"}
            /\ (label = "High need") <=> high
            /\ (label = "Moderate need") <=> (~high /\ moderate)
            /\ (label = "Low need") <=> (~high /\ ~moderate /\ low)
            /\ (label = "Monitor") <=> (~high /\ ~moderate /\ ~low)

\* C13 witness: 26 degrees at 39 percent matches the first two rules; the first wins.
C13_Witness ==
    /\ ret.fn = "calculateAgriculturalInsights"
    /\ cur.temperature = 26 /\ cur.humidity = 39
    /\ ret.val.irrigationRecommendation = "High need"

\* C19: the temperature range of the evapotranspiration proxy is max - min of the
\* first daily aggregate whenever there is one, 10 only without it, and the
\* evapotranspiration is never negative.
C19_TemperatureRange ==
    ret.fn = "calculateAgriculturalInsights" =>
        LET et == ret.val.evapotranspiration
        IN  /\ fc # <<>> =>
                  et.temperatureRange = fc[1].temperature.max - fc[1].temperature.min
            /\ fc = <<>> => et.temperatureRange = 10
            /\ et.temperatureRange >= 0
            /\ et.factor >= 0

Advisory == {"getCropAdvisory", "getFrostAlert", "getIrrigationAdvice"}

Joined == {"getCropAdvisory", "getAgriculturalWeather"}

\* C21: in getCropAdvisory and getAgriculturalWeather nothing is computed while a
\* fetch of the request is outstanding, and the classifiers / the index engine have
\* run (the response holds their results) only if every fetch was successful.
C21_JoinBeforeCompute ==
    op \in Joined =>
        /\ pending # {} => (pc = "waiting" /\ result = Null)
        /\ pc = "done" =>
              /\ pending = {}
              /\ DOMAIN resp = firstFetches(op)
              /\ result.value.success <=>
                    \A slot \in firstFetches(op) :
                        /\ answers[slot].kind = "ok"
                        /\ ~resp[slot].thrown
                        /\ resp[slot].value.success

\* C21 witness: getAgriculturalWeather returns insights after its three fetches all
\* succeeded.
C21_Witness ==
    /\ pc = "done"
    /\ op = "getAgriculturalWeather"
    /\ \A slot \in {"current", "hourly", "daily"} : answers[slot].kind = "ok"
    /\ result.value.success
    /\ "insights" \in DOMAIN result.value.data

\* C22: getFrostAlert returns success = false and no frost alert whenever one of its
\* two fetches is unsuccessful.
C22_FrostAlertFailsFast ==
    (pc = "done" /\ op = "getFrostAlert" /\ SomeFetchUnsuccessful) =>
        /\ ~result.value.success
        /\ "data" \notin DOMAIN result.value

\* C23: every fetch of a request is issued once, nothing is issued after a fetch has
\* failed, and a request one of whose fetches failed ends with one failure envelope.
C23_NoRetryThenFailure ==
    /\ \A e \in DOMAIN calls :
          calls[e] = Cardinality({slot \in pending \cup DOMAIN answers : endpoint(slot) = e})
    /\ (\E slot \in DOMAIN answers : answers[slot].kind # "ok") =>
          /\ pending \subseteq firstFetches(op)
          /\ pc = "done" =>
                /\ pending = {}
                /\ ~result.thrown
                /\ ~result.value.success
                /\ "error" \in DOMAIN result.value

\* C24: in a successful getAgriculturalWeather response the dailyForecast is the daily
\* aggregation of the samples of the forecast field, and the insights are computed
\* from that aggregation.
C24_DailyFromSameForecast ==
    (pc = "done" /\ op = "getAgriculturalWeather" /\ result.value.success) =>
        LET data == result.value.data
            days == aggregateAll(dailyMapFill(<<>>, data.forecast.forecast))
        IN  /\ data.dailyForecast.forecast = days
            /\ data.insights =
                  calculateAgriculturalInsights(
                      data.current, [location |-> Location, forecast |-> days])

(***************************************************************************)
(* Properties of the normalization.                                        *)
(***************************************************************************)
NormalizeOps == {"getCurrentWeather", "getHourlyForecast", "getHistoricalWeather"}

\* The provider samples of the answered fetch.
AnsweredSamples ==
    LET slot == CHOOSE x \in DOMAIN answers : TRUE
    IN  IF answers[slot].kind # "ok" THEN <<>>
        ELSE IF op = "getCurrentWeather" THEN <<answers[slot].data>>
        ELSE answers[slot].data

\* The Measurements of a successful response.
Measurements ==
    IF op = "getCurrentWeather" THEN <<result.value.data.current>>
    ELSE IF op = "getHourlyForecast" THEN result.value.data.forecast
    ELSE result.value.data.data

\* C16: a provider sample without its temperature, humidity, pressure or wind speed
\* makes the fetch report failure, and no successful response holds a Measurement
\* that lacks one of the four.
C16_MalformedSampleRejected ==
    (pc = "done" /\ op \in NormalizeOps) =>
        /\ (\E i \in 1..Len(AnsweredSamples) : ~(NumericKeys \subseteq DOMAIN AnsweredSamples[i]))
              => (~result.value.success /\ "error" \in DOMAIN result.value)
        /\ result.value.success =>
              \A i \in 1..Len(Measurements) :
                  {"temperature", "humidity", "pressure", "windSpeed"}
                      \subseteq DOMAIN Measurements[i]

====
